---- MODULE Spec2Model ----
(***************************************************************************)
(* Model of the MiniCompiler lexical analyzer (src/lexer/scanner.rs,       *)
(* token.rs, error.rs) and of the token-collecting loop of run_lexer       *)
(* (src/main.rs).                                                          *)
(*                                                                         *)
(* A character is a one-element string; the two non-ASCII characters of    *)
(* the model are written by their code points (EACUTE, EURO).  A text is a *)
(* sequence of characters.  Offsets (start, current) are byte offsets, as  *)
(* in the source; line and column count characters.                        *)
(*                                                                         *)
(* usize arithmetic: `a - b` with a < b panics when the build has overflow *)
(* checks (debug profile, `cargo test`) and wraps modulo 2^64 otherwise    *)
(* (release profile).  A wrapped value 2^64 - k is represented by the      *)
(* integer -k, its residue of least magnitude modulo 2^64.                 *)
(***************************************************************************)
EXTENDS Integers, Sequences, FiniteSets, TLC

VARIABLES
    source,           \* Scanner.source: the whole input text
    chars,            \* Scanner.chars: the characters the iterator has not yielded yet
    line,             \* Scanner.line
    column,           \* Scanner.column
    start,            \* Scanner.start (byte offset)
    current,          \* Scanner.current (byte offset)
    overflow_checks,  \* build profile: TRUE = arithmetic overflow panics
    panicked,         \* a call has panicked; the scanner is gone
    caller,           \* "run_lexer": the collecting loop; "api": direct calls
    tokens,           \* run_lexer: the Vec of collected tokens
    done,             \* run_lexer: the loop has left through `break`
    eof_returned,     \* history: next_token has returned end-of-input
    last_call,        \* "new", "next_token" or "peek_token"
    tok               \* the token the last call returned (NoToken if none)

vars == <<source, chars, line, column, start, current, overflow_checks,
          panicked, caller, tokens, done, eof_returned, last_call, tok>>

-----------------------------------------------------------------------------
(* Bounds of the model *)

MaxLen == 3

-----------------------------------------------------------------------------
(* Characters *)

NL == "\n"
TAB == "\t"
CR == "\r"
QUOTE == "\""
EACUTE == "U+00E9"
EURO == "U+20AC"

NoChar == "Option::None"

Digits == {"0", "1", "2", "3", "4", "5", "6", "7", "8", "9"}

AsciiAlphabetic ==
    {"a", "b", "c", "d", "e", "f", "g", "h", "i", "j", "k", "l", "m",
     "n", "o", "p", "q", "r", "s", "t", "u", "v", "w", "x", "y", "z",
     "A", "B", "C", "D", "E", "F", "G", "H", "I", "J", "K", "L", "M",
     "N", "O", "P", "Q", "R", "S", "T", "U", "V", "W", "X", "Y", "Z"}

len_utf8(ch) ==
    IF ch = EACUTE THEN 2
    ELSE IF ch = EURO THEN 3
    ELSE 1

is_ascii_digit(c) == c \in Digits

is_identifier_start(c) == c \in AsciiAlphabetic \/ c = "_"

-----------------------------------------------------------------------------
(* Texts and byte offsets *)

\* str::len(): the sum of the encoded widths of the characters (summed
\* per width, so that long texts need no deep recursion)
ByteLen(text) ==
    LET OfWidth(w) == Cardinality({i \in 1..Len(text) : len_utf8(text[i]) = w})
    IN  OfWidth(1) + 2 * OfWidth(2) + 3 * OfWidth(3)

\* Number of characters of text that lie before byte offset off;
\* -1 when off is not a character boundary of text.
\* the least k in lo..hi whose first k characters take at least off bytes
RECURSIVE BoundarySearch(_, _, _, _)
BoundarySearch(text, off, lo, hi) ==
    IF lo >= hi THEN lo
    ELSE LET mid == (lo + hi) \div 2
         IN  IF ByteLen(SubSeq(text, 1, mid)) >= off
             THEN BoundarySearch(text, off, lo, mid)
             ELSE BoundarySearch(text, off, mid + 1, hi)

CharsBefore(text, off) ==
    LET k == BoundarySearch(text, off, 0, Len(text))
    IN  IF ByteLen(SubSeq(text, 1, k)) = off THEN k ELSE -1

\* &text[from..to]; both offsets are character boundaries where it is used.
Slice(text, from, to) ==
    SubSeq(text, CharsBefore(text, from) + 1, CharsBefore(text, to))

\* &text[from..]
SliceFrom(text, from) ==
    SubSeq(text, CharsBefore(text, from) + 1, Len(text))

-----------------------------------------------------------------------------
(* Tokens (token.rs) *)

LitNone == [tag |-> "None"]
LitInteger(v) == [tag |-> "Integer", val |-> v]
LitFloat(v) == [tag |-> "Float", val |-> v]
LitString(v) == [tag |-> "String", val |-> v]
LitBoolean(b) == [tag |-> "Boolean", val |-> b]

TokenNew(token_type, lexeme, ln, col, literal) ==
    [token_type |-> token_type, lexeme |-> lexeme, line |-> ln,
     column |-> col, literal |-> literal]

TokenSimple(token_type, lexeme, ln, col) ==
    TokenNew(token_type, lexeme, ln, col, LitNone)

TokenError(lexeme, ln, col) ==
    TokenNew("Error", lexeme, ln, col, LitNone)

NoToken == [token_type |-> "NoToken"]

-----------------------------------------------------------------------------
(* Lexical errors and their rendered messages (error.rs).  A message is a  *)
(* sequence of pieces: the fixed wording, then the characters of the       *)
(* argument.                                                               *)

InvalidCharacter(c) == [kind |-> "InvalidCharacter", arg |-> <<c>>]
UnterminatedString == [kind |-> "UnterminatedString", arg |-> <<>>]
UnterminatedComment == [kind |-> "UnterminatedComment", arg |-> <<>>]
MalformedNumber(s) == [kind |-> "MalformedNumber", arg |-> s]
IntegerOutOfRange(s) == [kind |-> "IntegerOutOfRange", arg |-> s]

Display(err) ==
    CASE err.kind = "InvalidCharacter" ->
            <<"invalid character: '">> \o err.arg \o <<"'">>
      [] err.kind = "UnterminatedString" -> <<"unterminated string literal">>
      [] err.kind = "UnterminatedComment" -> <<"unterminated block comment">>
      [] err.kind = "MalformedNumber" ->
            <<"malformed number: '">> \o err.arg \o <<"'">>
      [] err.kind = "IntegerOutOfRange" ->
            <<"integer literal out of range: ">> \o err.arg

\* the characters of the fixed wording of each message; any other piece
\* of a text is one character
Wording(piece) ==
    CASE piece = "invalid character: '" ->
            <<"i", "n", "v", "a", "l", "i", "d", " ", "c", "h", "a", "r", "a", "c", "t", "e", "r", ":", " ", "'">>
      [] piece = "unterminated string literal" ->
            <<"u", "n", "t", "e", "r", "m", "i", "n", "a", "t", "e", "d", " ", "s", "t", "r", "i", "n", "g", " ", "l", "i", "t", "e", "r", "a", "l">>
      [] piece = "unterminated block comment" ->
            <<"u", "n", "t", "e", "r", "m", "i", "n", "a", "t", "e", "d", " ", "b", "l", "o", "c", "k", " ", "c", "o", "m", "m", "e", "n", "t">>
      [] piece = "malformed number: '" ->
            <<"m", "a", "l", "f", "o", "r", "m", "e", "d", " ", "n", "u", "m", "b", "e", "r", ":", " ", "'">>
      [] piece = "integer literal out of range: " ->
            <<"i", "n", "t", "e", "g", "e", "r", " ", "l", "i", "t", "e", "r", "a", "l", " ", "o", "u", "t", " ", "o", "f", " ", "r", "a", "n", "g", "e", ":", " ">>
      [] OTHER -> <<piece>>

-----------------------------------------------------------------------------
(* The scanner as a record s = [source, chars, line, column, start,        *)
(* current], and its private helpers.                                      *)

ScannerNew(text) ==
    [source |-> text, chars |-> text, line |-> 1, column |-> 1,
     start |-> 0, current |-> 0]

is_at_end(s) == s.chars = <<>>

peek(s) == IF s.chars = <<>> THEN NoChar ELSE Head(s.chars)

\* mutant: the cursor moves by one byte whatever the character
advance_one_byte(s) ==
    IF s.chars = <<>> THEN s
    ELSE LET ch == Head(s.chars)
         IN  [s EXCEPT !.chars = Tail(s.chars),
                       !.current = s.current + 1,
                       !.column = IF ch = NL THEN 1 ELSE s.column + 1,
                       !.line = IF ch = NL THEN s.line + 1 ELSE s.line]

\* mutant: the column is not reset at a newline
advance_keeps_column(s) ==
    IF s.chars = <<>> THEN s
    ELSE LET ch == Head(s.chars)
         IN  [s EXCEPT !.chars = Tail(s.chars),
                       !.current = s.current + len_utf8(ch),
                       !.column = s.column + 1,
                       !.line = IF ch = NL THEN s.line + 1 ELSE s.line]

advance(s) ==
    IF s.chars = <<>> THEN s
    ELSE LET ch == Head(s.chars)
         IN  [s EXCEPT !.chars = Tail(s.chars),
                       !.current = s.current + len_utf8(ch),
                       !.column = IF ch = NL THEN 1 ELSE s.column + 1,
                       !.line = IF ch = NL THEN s.line + 1 ELSE s.line]

\* mutant: the character ahead is consumed even when it is not the expected one
match_consumes_always(s, expected) ==
    [hit |-> peek(s) = expected, s |-> advance(s)]

\* r#match: the pair (consumed?, scanner after)
match(s, expected) ==
    IF peek(s) = expected
    THEN [hit |-> TRUE, s |-> advance(s)]
    ELSE [hit |-> FALSE, s |-> s]

\* n successive calls of advance(), n <= Len(s.chars), in closed form (a
\* run of 256 characters is too deep for a recursive definition);
\* AdvanceNIsIteratedAdvance relates it to advance
advance_n(s, n) ==
    LET taken == SubSeq(s.chars, 1, n)
        newlines == {i \in 1..n : taken[i] = NL}
        last_newline == CHOOSE i \in newlines : \A j \in newlines : j <= i
    IN  [s EXCEPT !.chars = SubSeq(s.chars, n + 1, Len(s.chars)),
                  !.current = s.current + ByteLen(taken),
                  !.line = s.line + Cardinality(newlines),
                  !.column = IF newlines = {} THEN s.column + n
                             ELSE 1 + (n - last_newline)]

\* the number of leading characters c of text with (c \in set) = member
RunLength(text, set, member) ==
    (CHOOSE i \in 1..(Len(text) + 1) :
        /\ i = Len(text) + 1 \/ (text[i] \in set) # member
        /\ \A j \in 1..(i - 1) : (text[j] \in set) = member) - 1

\* while let Some(c) = self.peek() { if cond { self.advance(); } else { break; } }
\* where cond is (c \in set) = member
advance_while(s, set, member) ==
    advance_n(s, RunLength(s.chars, set, member))

\* c == ' ' || c == '\t' || c == '\r'
BlankChars == {" ", TAB, CR}

skip_whitespace(s) == advance_while(s, BlankChars, TRUE)

single_line_comment(s) == advance_while(s, {NL}, FALSE)

\* The loop of block_comment from the state (s, nesting):
\* [ok |-> Ok(()) or Err(UnterminatedComment), s |-> scanner after]
RECURSIVE block_comment_loop(_, _)

\* mutant: an inner opening delimiter does not deepen the nesting
RECURSIVE block_comment_loop_flat(_, _)
block_comment_loop_flat(s, nesting) ==
    IF nesting <= 0 THEN [ok |-> TRUE, s |-> s]
    ELSE IF peek(s) = NoChar THEN [ok |-> FALSE, s |-> s]
    ELSE IF peek(s) = "*" THEN
        LET s1 == advance(s)
        IN  IF peek(s1) = "/"
            THEN block_comment_loop_flat(advance(s1), nesting - 1)
            ELSE block_comment_loop_flat(s1, nesting)
    ELSE block_comment_loop_flat(advance(s), nesting)

block_comment_loop(s, nesting) ==
    IF nesting <= 0 THEN [ok |-> TRUE, s |-> s]
    ELSE IF peek(s) = NoChar THEN [ok |-> FALSE, s |-> s]
    ELSE IF peek(s) = "/" THEN
        LET s1 == advance(s)
        IN  IF peek(s1) = "*"
            THEN block_comment_loop(advance(s1), nesting + 1)
            ELSE block_comment_loop(s1, nesting)
    ELSE IF peek(s) = "*" THEN
        LET s1 == advance(s)
        IN  IF peek(s1) = "/"
            THEN block_comment_loop(advance(s1), nesting - 1)
            ELSE block_comment_loop(s1, nesting)
    ELSE block_comment_loop(advance(s), nesting)

block_comment(s) == block_comment_loop(s, 1)

-----------------------------------------------------------------------------
(* usize subtraction and the results of a call *)

\* a - b on usize: the call panics iff the build checks overflow and a < b
SubPanics(a, b) == overflow_checks /\ a < b

\* a - b on usize when it does not panic (negative = wrapped, see the header)
SubUsize(a, b) == a - b

\* A call result: the scanner after the call and the token, or a panic
Returned(s, t) == [s |-> s, panicked |-> FALSE, tok |-> t]
Panic(s) == [s |-> s, panicked |-> TRUE, tok |-> NoToken]

Lexeme(s) == Slice(s.source, s.start, s.current)

simple_token(s, token_type) ==
    IF SubPanics(s.column, s.current - s.start) THEN Panic(s)
    ELSE Returned(s, TokenSimple(token_type, Lexeme(s), s.line,
                                 SubUsize(s.column, s.current - s.start)))

make_token(s, token_type, literal) ==
    IF SubPanics(s.column, s.current - s.start) THEN Panic(s)
    ELSE Returned(s, TokenNew(token_type, Lexeme(s), s.line,
                              SubUsize(s.column, s.current - s.start), literal))

error_token(s, err) ==
    IF SubPanics(s.column, s.current - s.start) THEN Panic(s)
    ELSE Returned(s, TokenError(Display(err), s.line,
                                SubUsize(s.column, s.current - s.start)))

-----------------------------------------------------------------------------
(* The keyword table built by Scanner::new: pairs (spelling, kind) *)

keywords ==
    {<<<<"i", "f">>, "If">>,
     <<<<"e", "l", "s", "e">>, "Else">>,
     <<<<"w", "h", "i", "l", "e">>, "While">>,
     <<<<"f", "o", "r">>, "For">>,
     <<<<"i", "n", "t">>, "Int">>,
     <<<<"f", "l", "o", "a", "t">>, "Float">>,
     <<<<"b", "o", "o", "l">>, "Bool">>,
     <<<<"r", "e", "t", "u", "r", "n">>, "Return">>,
     <<<<"t", "r", "u", "e">>, "True">>,
     <<<<"f", "a", "l", "s", "e">>, "False">>,
     <<<<"v", "o", "i", "d">>, "Void">>,
     <<<<"s", "t", "r", "u", "c", "t">>, "Struct">>,
     <<<<"f", "n">>, "Fn">>}

\* mutant: the lookup accepts a keyword that is a prefix of the lexeme
KeywordGetPrefix(lexeme) ==
    IF \E kw \in keywords :
          Len(kw[1]) <= Len(lexeme) /\ SubSeq(lexeme, 1, Len(kw[1])) = kw[1]
    THEN (CHOOSE kw \in keywords :
             Len(kw[1]) <= Len(lexeme) /\ SubSeq(lexeme, 1, Len(kw[1])) = kw[1])[2]
    ELSE "NotAKeyword"

KeywordGet(lexeme) ==
    IF \E kw \in keywords : kw[1] = lexeme
    THEN (CHOOSE kw \in keywords : kw[1] = lexeme)[2]
    ELSE "NotAKeyword"

MaxIdentifierLen == 255

-----------------------------------------------------------------------------
(* Decimal texts.  str::parse::<i64> of a digit run accepts leading zeros  *)
(* and fails exactly when the value exceeds i64::MAX; the comparison is    *)
(* made on the digits because the values do not fit the checker's          *)
(* integers.                                                               *)

DigitVal(d) ==
    CASE d = "0" -> 0 [] d = "1" -> 1 [] d = "2" -> 2 [] d = "3" -> 3
      [] d = "4" -> 4 [] d = "5" -> 5 [] d = "6" -> 6 [] d = "7" -> 7
      [] d = "8" -> 8 [] d = "9" -> 9

RECURSIVE StripZeros(_)
StripZeros(ds) ==
    IF Len(ds) > 1 /\ Head(ds) = "0" THEN StripZeros(Tail(ds)) ELSE ds

\* a < b for digit runs of the same length
RECURSIVE DigitsLess(_, _)
DigitsLess(a, b) ==
    IF a = <<>> THEN FALSE
    ELSE IF DigitVal(Head(a)) # DigitVal(Head(b))
         THEN DigitVal(Head(a)) < DigitVal(Head(b))
         ELSE DigitsLess(Tail(a), Tail(b))

\* a > b for digit runs without leading zeros
DecimalGreater(a, b) ==
    \/ Len(a) > Len(b)
    \/ Len(a) = Len(b) /\ DigitsLess(b, a)

I64Max == <<"9", "2", "2", "3", "3", "7", "2", "0", "3", "6", "8", "5", "4", "7", "7", "5", "8", "0", "7">>

I32Max == <<"2", "1", "4", "7", "4", "8", "3", "6", "4", "7">>

\* lexeme.parse::<i64>() for an unsigned text: Err unless the text is a
\* non-empty digit run of value at most i64::MAX; Ok(val) carries the
\* value as its digits without leading zeros
ParseI64(lexeme) ==
    IF lexeme = <<>> \/ \E i \in 1..Len(lexeme) : lexeme[i] \notin Digits
    THEN [ok |-> FALSE, val |-> <<>>]
    ELSE LET ds == StripZeros(lexeme)
         IN  IF DecimalGreater(ds, I64Max)
             THEN [ok |-> FALSE, val |-> <<>>]
             ELSE [ok |-> TRUE, val |-> ds]

\* the integer a digit run of value at most i32::MAX denotes
RECURSIVE DecimalToInt(_, _)
DecimalToInt(ds, acc) ==
    IF ds = <<>> THEN acc
    ELSE DecimalToInt(Tail(ds), acc * 10 + DigitVal(Head(ds)))

RECURSIVE StripTrailingZeros(_)
StripTrailingZeros(ds) ==
    IF Len(ds) > 1 /\ ds[Len(ds)] = "0"
    THEN StripTrailingZeros(SubSeq(ds, 1, Len(ds) - 1))
    ELSE ds

\* lexeme.parse::<f64>() for a text digits '.' digits: Ok (Err for any
\* other unsigned text with a dot that number() could pass).  The value
\* is kept as the exact decimal (integer part, fraction part); the
\* rounding to the nearest f64 is not modelled.
ParseF64(lexeme) ==
    LET dots == {i \in 1..Len(lexeme) : lexeme[i] = "."}
        dot == CHOOSE i \in dots : TRUE
    IN  IF \/ Cardinality(dots) # 1
           \/ \E i \in 1..Len(lexeme) : lexeme[i] \notin Digits \cup {"."}
           \/ Len(lexeme) = 1
        THEN [ok |-> FALSE, val |-> <<>>]
        ELSE [ok |-> TRUE,
              val |-> <<StripZeros(SubSeq(lexeme, 1, dot - 1)),
                        StripTrailingZeros(SubSeq(lexeme, dot + 1,
                                                  Len(lexeme)))>>]

-----------------------------------------------------------------------------
(* Recognizers *)

\* the while loop of string(): [closed, s, value]
RECURSIVE string_loop(_, _)

\* mutant: a backslash escapes the character that follows it
RECURSIVE string_loop_with_escapes(_, _)
string_loop_with_escapes(s, value) ==
    IF peek(s) = NoChar THEN [closed |-> FALSE, s |-> s, value |-> value]
    ELSE IF peek(s) = QUOTE
         THEN [closed |-> TRUE, s |-> advance(s), value |-> value]
    ELSE IF peek(s) = NL THEN [closed |-> FALSE, s |-> s, value |-> value]
    ELSE IF peek(s) = "\\" /\ peek(advance(s)) # NoChar
         THEN string_loop_with_escapes(advance(advance(s)),
                                       Append(value, peek(advance(s))))
    ELSE string_loop_with_escapes(advance(s), Append(value, peek(s)))

string_loop(s, value) ==
    IF peek(s) = NoChar THEN [closed |-> FALSE, s |-> s, value |-> value]
    ELSE IF peek(s) = QUOTE
         THEN [closed |-> TRUE, s |-> advance(s), value |-> value]
    ELSE IF peek(s) = NL THEN [closed |-> FALSE, s |-> s, value |-> value]
    ELSE string_loop(advance(s), Append(value, peek(s)))

string(s) ==
    IF SubPanics(s.column, 1) THEN Panic(s)
    ELSE LET start_line == s.line
             start_column == SubUsize(s.column, 1)
             r == string_loop(s, <<>>)
         IN  IF r.closed
             THEN Returned(r.s, TokenNew("StringLiteral", Lexeme(r.s),
                                         start_line, start_column,
                                         LitString(r.value)))
             ELSE error_token(r.s, UnterminatedString)

digit_run(s) == advance_while(s, Digits, TRUE)

\* the part of number() after the shape of the literal is known
number_value(s, is_float, start_line, start_column) ==
    LET lexeme == Lexeme(s)
    IN  IF is_float
        THEN LET p == ParseF64(lexeme)
             IN  IF p.ok
                 THEN Returned(s, TokenNew("FloatLiteral", lexeme, start_line,
                                           start_column, LitFloat(p.val)))
                 ELSE error_token(s, MalformedNumber(lexeme))
        ELSE LET p == ParseI64(lexeme)
             IN  IF p.ok
                 THEN IF DecimalGreater(p.val, I32Max)
                      THEN error_token(s, IntegerOutOfRange(lexeme))
                      ELSE Returned(s, TokenNew("IntLiteral", lexeme,
                                        start_line, start_column,
                                        LitInteger(DecimalToInt(p.val, 0))))
                 ELSE error_token(s, MalformedNumber(lexeme))

number(s) ==
    IF SubPanics(s.column, 1) THEN Panic(s)
    ELSE LET start_line == s.line
             start_column == SubUsize(s.column, 1)
             s1 == digit_run(s)
         IN  IF peek(s1) = "."
             THEN LET s2 == advance(s1)
                  IN  IF ~(peek(s2) # NoChar /\ is_ascii_digit(peek(s2)))
                      THEN error_token(s2, MalformedNumber(Lexeme(s2)))
                      ELSE number_value(digit_run(s2), TRUE,
                                        start_line, start_column)
             ELSE number_value(s1, FALSE, start_line, start_column)

IdentifierContinueChars == AsciiAlphabetic \cup Digits \cup {"_"}

identifier_run(s) == advance_while(s, IdentifierContinueChars, TRUE)

\* mutant: a lexeme of exactly 255 bytes is already rejected
identifier_limit_off_by_one(s) ==
    IF SubPanics(s.column, 1) THEN Panic(s)
    ELSE LET start_line == s.line
             start_column == SubUsize(s.column, 1)
             s1 == identifier_run(s)
             lexeme == Lexeme(s1)
             token_type == KeywordGet(lexeme)
         IN  IF token_type # "NotAKeyword"
             THEN Returned(s1, TokenNew(token_type, lexeme, start_line,
                               start_column,
                               IF token_type = "True" THEN LitBoolean(TRUE)
                               ELSE IF token_type = "False"
                                    THEN LitBoolean(FALSE)
                                    ELSE LitNone))
             ELSE IF ByteLen(lexeme) >= MaxIdentifierLen
                  THEN error_token(s1, MalformedNumber(lexeme))
                  ELSE Returned(s1, TokenNew("Identifier", lexeme, start_line,
                                             start_column, LitNone))

identifier(s) ==
    IF SubPanics(s.column, 1) THEN Panic(s)
    ELSE LET start_line == s.line
             start_column == SubUsize(s.column, 1)
             s1 == identifier_run(s)
             lexeme == Lexeme(s1)
             token_type == KeywordGet(lexeme)
         IN  IF token_type # "NotAKeyword"
             THEN Returned(s1, TokenNew(token_type, lexeme, start_line,
                               start_column,
                               IF token_type = "True" THEN LitBoolean(TRUE)
                               ELSE IF token_type = "False"
                                    THEN LitBoolean(FALSE)
                                    ELSE LitNone))
             ELSE IF ByteLen(lexeme) > MaxIdentifierLen
                  THEN error_token(s1, MalformedNumber(lexeme))
                  ELSE Returned(s1, TokenNew("Identifier", lexeme, start_line,
                                             start_column, LitNone))

-----------------------------------------------------------------------------
(* next_token and peek_token *)

Delimiter(c) ==
    CASE c = "(" -> "LParen" [] c = ")" -> "RParen"
      [] c = "{" -> "LBrace" [] c = "}" -> "RBrace"
      [] c = "[" -> "LBracket" [] c = "]" -> "RBracket"
      [] c = ";" -> "Semicolon" [] c = "," -> "Comma"
      [] c = ":" -> "Colon" [] OTHER -> "NotADelimiter"

\* mutant: a minus sign right before a digit starts a signed number
one_or_two_signed(s, second, two, one) ==
    LET m == match(s, second)
    IN  IF m.hit THEN simple_token(m.s, two)
        ELSE IF one = "Minus" /\ peek(s) # NoChar /\ is_ascii_digit(peek(s))
             THEN number(advance(s))
             ELSE simple_token(m.s, one)

\* the arms of the form: if self.match(second) { two } else { one }
one_or_two(s, second, two, one) ==
    LET m == match(s, second)
    IN  IF m.hit THEN simple_token(m.s, two) ELSE simple_token(m.s, one)

RECURSIVE next_token(_)

\* the match on the first character c of the unit, already consumed
dispatch(s, c) ==
    IF Delimiter(c) # "NotADelimiter" THEN simple_token(s, Delimiter(c))
    ELSE IF c = "+" THEN one_or_two(s, "=", "PlusEqual", "Plus")
    ELSE IF c = "-" THEN one_or_two(s, "=", "MinusEqual", "Minus")
    ELSE IF c = "*" THEN one_or_two(s, "=", "StarEqual", "Star")
    ELSE IF c = "/" THEN
        IF match(s, "/").hit
        THEN next_token(single_line_comment(match(s, "/").s))
        ELSE IF match(s, "*").hit
        THEN LET r == block_comment(match(s, "*").s)
             IN  IF ~r.ok THEN error_token(r.s, UnterminatedComment)
                 ELSE next_token(r.s)
        ELSE one_or_two(s, "=", "SlashEqual", "Slash")
    ELSE IF c = "=" THEN one_or_two(s, "=", "EqualEqual", "Equal")
    ELSE IF c = "!" THEN one_or_two(s, "=", "NotEqual", "Bang")
    ELSE IF c = "<" THEN one_or_two(s, "=", "LessEqual", "Less")
    ELSE IF c = ">" THEN one_or_two(s, "=", "GreaterEqual", "Greater")
    ELSE IF c = "&" THEN
        LET m == match(s, "&")
        IN  IF m.hit THEN simple_token(m.s, "AndAnd")
            ELSE error_token(m.s, InvalidCharacter("&"))
    ELSE IF c = "|" THEN
        LET m == match(s, "|")
        IN  IF m.hit THEN simple_token(m.s, "OrOr")
            ELSE error_token(m.s, InvalidCharacter("|"))
    ELSE IF c = QUOTE THEN string(s)
    ELSE IF is_ascii_digit(c) THEN number(s)
    ELSE IF is_identifier_start(c) THEN identifier(s)
    ELSE error_token(s, InvalidCharacter(c))

\* mutant: the token start is recorded before the blanks are skipped
next_token_start_before_skip(s) ==
    LET s1 == [s EXCEPT !.start = s.current]
        s2 == skip_whitespace(s1)
    IN  IF is_at_end(s2) THEN make_token(s2, "EndOfFile", LitNone)
        ELSE dispatch(advance(s2), peek(s2))

next_token(s) ==
    LET s1 == skip_whitespace(s)
        s2 == [s1 EXCEPT !.start = s1.current]
    IN  IF is_at_end(s2) THEN make_token(s2, "EndOfFile", LitNone)
        ELSE dispatch(advance(s2), peek(s2))

save(s) ==
    [start |-> s.start, current |-> s.current, line |-> s.line,
     column |-> s.column]

\* mutant: the snapshot's column is not put back
restore_without_column(s, state) ==
    [s EXCEPT !.start = state.start, !.current = state.current,
              !.line = state.line,
              !.chars = SliceFrom(s.source, state.current)]

restore(s, state) ==
    [s EXCEPT !.start = state.start, !.current = state.current,
              !.line = state.line, !.column = state.column,
              !.chars = SliceFrom(s.source, state.current)]

peek_token(s) ==
    LET snapshot == save(s)
        r == next_token(s)
    IN  IF r.panicked THEN r
        ELSE Returned(restore(r.s, snapshot), r.tok)

\* the loop of run_lexer from the scanner s with the tokens acc collected
\* so far: the tokens up to and including end-of-input, or up to a panic
RECURSIVE run_lexer_loop(_, _)
run_lexer_loop(s, acc) ==
    LET r == next_token(s)
    IN  IF r.panicked THEN [panicked |-> TRUE, tokens |-> acc]
        ELSE IF r.tok.token_type = "EndOfFile"
             THEN [panicked |-> FALSE, tokens |-> Append(acc, r.tok)]
             ELSE run_lexer_loop(r.s, Append(acc, r.tok))

-----------------------------------------------------------------------------
(* Input texts *)

\* all texts of at most n characters over an alphabet
Texts(alphabet, n) == UNION {[1..k -> alphabet] : k \in 0..n}

Repeat(c, n) == [i \in 1..n |-> c]

StructureAlphabet == {" ", NL, "/", "*", "a", EURO, QUOTE}

WordAlphabet == {"i", "f", "n", "1", "_", " "}

OperatorSpellings ==
    {<<"+">>,
     <<"-">>,
     <<"*">>,
     <<"/">>,
     <<"%">>,
     <<"=">>,
     <<"=", "=">>,
     <<"!", "=">>,
     <<"<">>,
     <<"<", "=">>,
     <<">">>,
     <<">", "=">>,
     <<"&", "&">>,
     <<"|", "|">>,
     <<"!">>,
     <<"+", "=">>,
     <<"-", "=">>,
     <<"*", "=">>,
     <<"/", "=">>}

KeywordSpellings == {kw[1] : kw \in keywords}

\* each spelling alone, followed by a space, and followed by another unit
AsNextUnit(spellings) ==
    spellings \cup {sp \o <<" ">> : sp \in spellings}
              \cup {sp \o <<" ", "x">> : sp \in spellings}

\* the sources of tests/lexer_tests.rs
TestKeywords == <<"i", "f", " ", "e", "l", "s", "e", " ", "w", "h", "i", "l", "e", " ", "f", "o", "r", " ", "i", "n", "t", " ", "f", "l", "o", "a", "t", " ", "b", "o", "o", "l", " ", "r", "e", "t", "u", "r", "n", " ", "t", "r", "u", "e", " ", "f", "a", "l", "s", "e", " ", "v", "o", "i", "d", " ", "s", "t", "r", "u", "c", "t", " ", "f", "n">>

TestIdentifiers ==
    <<"x", " ", "_", "f", "o", "o", " ", "b", "a", "r", "1", "2", "3", " ", "a", "_", "v", "e", "r", "y", "_", "l", "o", "n", "g", "_", "i", "d", "e", "n", "t", "i", "f", "i", "e", "r", "_", "t", "h", "a", "t", "_", "i", "s", "_", "u", "n", "d", "e", "r", "_", "2", "5", "5", "_", "c", "h", "a", "r", "s">>

TestIntegerLiterals == <<"0", " ", "4", "2", " ", "2", "1", "4", "7", "4", "8", "3", "6", "4", "7", " ", "-", "2", "1", "4", "7", "4", "8", "3", "6", "4", "8">>

TestFloatLiterals == <<"0", ".", "0", " ", "3", ".", "1", "4", " ", ".", "5", " ", "1", "0", ".">>

\* r#""hello" "world" ""#: the raw string ends at the first "# and so
\* holds one quote after the last space
TestStringLiterals == <<QUOTE, "h", "e", "l", "l", "o", QUOTE, " ", QUOTE, "w", "o", "r", "l", "d", QUOTE, " ", QUOTE>>

TestOperators == <<"+", " ", "-", " ", "*", " ", "/", " ", "%", " ", "=", " ", "=", "=", " ", "!", "=", " ", "<", " ", "<", "=", " ", ">", " ", ">", "=", " ", "&", "&", " ", "|", "|", " ", "!", " ", "+", "=", " ", "-", "=", " ", "*", "=", " ", "/", "=">>

TestDelimiters == <<"(", " ", ")", " ", "{", " ", "}", " ", "[", " ", "]", " ", ";", " ", ",", " ", ":">>

TestComments ==
    <<NL, " ", " ", " ", " ", "/", "/", " ", "s", "i", "n", "g", "l", "e", " ", "l", "i", "n", "e", " ", "c", "o", "m", "m", "e", "n", "t", NL, " ", " ", " ", " ", "i", "n", "t", " ", "x", " ", "=", " ", "5", ";", " ", "/", "/", " ", "t", "r", "a", "i", "l", "i", "n", "g", " ", "c", "o", "m", "m", "e", "n", "t", NL, " ", " ", " ", " ", "/", "*", " ", "b", "l", "o", "c", "k", " ", "c", "o", "m", "m", "e", "n", "t", " ", "*", "/", NL, " ", " ", " ", " ", "/", "*", " ", "n", "e", "s", "t", "e", "d", " ", "/", "*", " ", "b", "l", "o", "c", "k", " ", "*", "/", " ", "c", "o", "m", "m", "e", "n", "t", " ", "*", "/", NL, " ", " ", " ", " ", QUOTE, "/", "*", " ", "n", "o", "t", " ", "a", " ", "c", "o", "m", "m", "e", "n", "t", " ", "*", "/", QUOTE, NL, " ", " ", " ", " ">>

TestInvalidCharacters == <<"@", " ", "$", " ", "#">>

TestUnterminatedString == <<QUOTE, "h", "e", "l", "l", "o">>

TestUnterminatedComment == <<"/", "*", " ", "c", "o", "m", "m", "e", "n", "t", " ", "n", "e", "v", "e", "r", " ", "e", "n", "d", "s">>

TestLongIdentifier == Repeat("a", 300)

TestIntegerOutOfRange == <<"2", "1", "4", "7", "4", "8", "3", "6", "4", "8">>

TestPositionTracking == <<"i", "f", " ", "x", NL, "1", "2", "3">>

TestSources ==
    {TestKeywords, TestIdentifiers, TestIntegerLiterals, TestFloatLiterals,
     TestStringLiterals, TestOperators, TestDelimiters, TestComments,
     TestInvalidCharacters, TestUnterminatedString, TestUnterminatedComment,
     TestLongIdentifier, TestIntegerOutOfRange, TestPositionTracking}

IntegerSources ==
    {<<"0">>,
     <<"7">>,
     <<"4", "2">>,
     <<"0", "0", "7">>,
     <<"2", "1", "4", "7", "4", "8", "3", "6", "4", "6">>,
     <<"2", "1", "4", "7", "4", "8", "3", "6", "4", "7">>,
     <<"2", "1", "4", "7", "4", "8", "3", "6", "4", "8">>,
     <<"2", "1", "4", "7", "4", "8", "3", "6", "4", "9">>,
     <<"0", "0", "0", "2", "1", "4", "7", "4", "8", "3", "6", "4", "7">>,
     <<"0", "0", "0", "2", "1", "4", "7", "4", "8", "3", "6", "4", "8">>,
     <<"4", "2", "9", "4", "9", "6", "7", "2", "9", "6">>,
     <<"9", "2", "2", "3", "3", "7", "2", "0", "3", "6", "8", "5", "4", "7", "7", "5", "8", "0", "7">>,
     <<"9", "2", "2", "3", "3", "7", "2", "0", "3", "6", "8", "5", "4", "7", "7", "5", "8", "0", "8">>,
     <<"1", "8", "4", "4", "6", "7", "4", "4", "0", "7", "3", "7", "0", "9", "5", "5", "1", "6", "1", "6">>,
     <<"9", "9", "9", "9", "9", "9", "9", "9", "9", "9", "9", "9", "9", "9", "9", "9", "9", "9", "9", "9">>,
     <<"0", "0", "0", "0", "0", "0", "0", "0", "0", "0", "0", "0", "0", "0", "0", "0", "0", "0", "0", "0", "0", "0", "1">>,
     <<"1", "0", "0", "0", "0", "0", "0", "0", "0", "0", "0", "0", "0", "0", "0", "0", "0", "0", "0", "0", "0", "0", "0", "0">>}

WordSources ==
    {<<"i", "f", "f", "y">>,
     <<"f", "n", "1">>,
     <<"I", "f">>,
     <<"_">>,
     <<"_", "i", "f">>,
     <<"i", "n", "t", "_">>,
     <<"t", "r", "u", "e", "x">>,
     <<"x">>,
     <<"r", "e", "t", "u", "r", "n", "s">>,
     <<"f", "n", "f", "n">>}
        \cup {Repeat("a", n) : n \in {MaxIdentifierLen - 1, MaxIdentifierLen,
                                      MaxIdentifierLen + 1}}
        \cup {Repeat("a", MaxIdentifierLen) \o <<" ", "b">>}

CommentSources ==
    {<<"/", "*", " ", "a", " ", "/", "*", " ", "b", " ", "*", "/", " ", "c", " ", "*", "/", "x">>,
     <<"/", "*", " ", "a", " ", "/", "*", " ", "b", " ", "*", "/", " ", "c", " ", "*", "/">>,
     <<"/", "*", " ", "a", " ", "/", "*", " ", "b", " ", "*", "/">>,
     <<"/", "*", " ", "a", " ", "*", "/", " ", "/", "/", " ", "b">>,
     <<"/", "/", " ", "a", NL, "/", "*", " ", "b", " ", "*", "/">>,
     <<"/", "*", NL, "*", "/">>,
     <<" ", TAB, CR, " ">>,
     <<TAB, "/", "/", " ", "c">>,
     <<"/", "*", " ", EURO, " ", "*", "/">>,
     <<"/", "*", " ", "/", "*", " ", "*", "/", " ", "*", "/", " ", CR>>,
     <<"/", "/", " ", EACUTE>>,
     <<"/", "*", " ", "x", NL, "y">>,
     <<"/", "*", " ", EACUTE>>}

\* block comments of several depths followed by a word
NestingSources ==
    {<<"/", "*", "*", "/", "a">>,
     <<"/", "*", "*", "*", "/", "x">>,
     <<"/", "*", "/", "*", "*", "/", "*", "/", "a">>,
     <<"/", "*", "/", "*", "/", "x", "*", "/", "*", "/", "y">>,
     <<"/", "*", " ", "/", "*", " ", "*", "/", " ", "*", "/", " ", "i", "f">>,
     <<"/", "*", "/", "*", "/", "*", "a", "*", "/", "*", "/", "*", "/", " ", "b">>,
     <<"/", "*", " ", "*", " ", "/", " ", "*", "/", "a", "*", "/">>}

\* closed string literals: empty, with comment markers, a backslash,
\* characters of several bytes, blanks
StringSources ==
    {<<QUOTE, QUOTE>>,
     <<QUOTE, QUOTE, " ", "x">>,
     <<QUOTE, "/", "/", " ", "c", QUOTE>>,
     <<QUOTE, "/", "*", " ", "x", " ", "*", "/", QUOTE, " ", "y">>,
     <<QUOTE, "a", "\\", QUOTE, "b", QUOTE>>,
     <<QUOTE, EACUTE, EURO, QUOTE>>,
     <<QUOTE, "a", " ", "b", QUOTE, "z">>,
     <<" ", QUOTE, TAB, QUOTE>>,
     <<QUOTE, "h", "e", "l", "l", "o", QUOTE, " ", QUOTE, "w", "o", "r", "l", "d", QUOTE, " ", QUOTE, QUOTE>>}

\* single and doubled & and |
AmpersandSources ==
    {<<"&">>,
     <<"|">>,
     <<"&", "x">>,
     <<"|", "x">>,
     <<"&", "|">>,
     <<"|", "&">>,
     <<"&", "&", "&">>,
     <<"|", "|", "|">>,
     <<"&", " ", "&">>,
     <<" ", "|", NL>>,
     <<"&", EURO>>,
     <<"&", "=">>}

\* numeric-looking units of test_float_literals and their like, each alone
NumericUnitSources ==
    {<<"0", ".", "0">>,
     <<"3", ".", "1", "4">>,
     <<".", "5">>,
     <<"1", "0", ".">>,
     <<"0", "0", "7", ".", "5", "0">>,
     <<"1", ".">>}

\* digit runs with a minus sign before them
SignedSources ==
    {<<"-", "5">>,
     <<"-", "0">>,
     <<"-", "2", "1", "4", "7", "4", "8", "3", "6", "4", "8">>,
     <<"-", "2", "1", "4", "7", "4", "8", "3", "6", "4", "7">>,
     <<"-", "1", ".", "5">>,
     <<"-", "-", "3">>,
     <<"1", "-", "2">>,
     <<"x", " ", "-", "4", "2", " ">>,
     <<"-", " ", "5">>,
     <<"-", "=", "5">>,
     <<"-", "0", "0", "7">>,
     <<"-", "5", ".">>}

\* comments next to other units: between words and digits, after a
\* string that holds a comment marker, before units of several bytes
TransparencySources ==
    {<<"a", "/", "*", "*", "/", "b">>,
     <<"1", "/", "*", "*", "/", "2">>,
     <<QUOTE, "/", "/", QUOTE, "/", "/", "x">>,
     <<"/", " ", "/", "*", " ", "*", "/", "=">>,
     <<"a", "/", "/", "c", NL, "b">>,
     <<"/", "*", " ", "*", "/", QUOTE, EURO, EURO>>,
     <<"x", " ", "/", "*", " ", "/", "*", " ", "*", "/", " ", "*", "/", " ", "+", " ", "y", " ", "/", "/", " ", "z">>,
     <<"/", "*", NL, "*", "/", "i", "f">>,
     <<"a", "l", "/", "*", " ", "*", "/", "p", "h", "a">>,
     <<QUOTE, "a", "/", "*", QUOTE, "b", "*", "/", QUOTE>>,
     <<"1", " ", "/", "/", " ", "2", NL, "/", "*", " ", "3", " ", "*", "/", " ", "4", ".", "5">>,
     <<"/", "*", "*", "/", "/", "*", "*", "/", EACUTE>>}

Sources ==
    Texts(StructureAlphabet, MaxLen) \cup Texts(WordAlphabet, MaxLen)
        \cup AsNextUnit(OperatorSpellings) \cup AsNextUnit(KeywordSpellings)
        \cup TestSources \cup IntegerSources \cup WordSources
        \cup CommentSources \cup NestingSources
        \cup StringSources \cup AmpersandSources \cup NumericUnitSources
        \cup SignedSources \cup TransparencySources

-----------------------------------------------------------------------------
(* The state machine *)

Scanner ==
    [source |-> source, chars |-> chars, line |-> line, column |-> column,
     start |-> start, current |-> current]

\* the scanner fields after a call
SetScanner(s) ==
    /\ chars' = s.chars
    /\ line' = s.line
    /\ column' = s.column
    /\ start' = s.start
    /\ current' = s.current
    /\ UNCHANGED source

\* Scanner::new(source), under either build profile, for either caller
Init ==
    /\ source \in Sources
    /\ chars = ScannerNew(source).chars
    /\ line = ScannerNew(source).line
    /\ column = ScannerNew(source).column
    /\ start = ScannerNew(source).start
    /\ current = ScannerNew(source).current
    /\ overflow_checks \in BOOLEAN
    /\ panicked = FALSE
    /\ caller \in {"run_lexer", "api"}
    /\ tokens = <<>>
    /\ done = FALSE
    /\ eof_returned = FALSE
    /\ last_call = "new"
    /\ tok = NoToken

\* a direct call of scanner.next_token()
NextToken ==
    /\ caller = "api"
    /\ ~panicked
    /\ LET r == next_token(Scanner)
       IN  /\ SetScanner(r.s)
           /\ panicked' = r.panicked
           /\ tok' = r.tok
           /\ eof_returned' =
                (eof_returned \/ r.tok.token_type = "EndOfFile")
    /\ last_call' = "next_token"
    /\ UNCHANGED <<overflow_checks, caller, tokens, done>>

\* a direct call of scanner.peek_token()
PeekToken ==
    /\ caller = "api"
    /\ ~panicked
    /\ LET r == peek_token(Scanner)
       IN  /\ SetScanner(r.s)
           /\ panicked' = r.panicked
           /\ tok' = r.tok
    /\ last_call' = "peek_token"
    /\ UNCHANGED <<overflow_checks, caller, tokens, done, eof_returned>>

\* one iteration of the loop of run_lexer
RunLexer ==
    /\ caller = "run_lexer"
    /\ ~panicked
    /\ ~done
    /\ LET r == next_token(Scanner)
       IN  /\ SetScanner(r.s)
           /\ panicked' = r.panicked
           /\ tok' = r.tok
           /\ tokens' = IF r.panicked THEN tokens ELSE Append(tokens, r.tok)
           /\ done' = (~r.panicked /\ r.tok.token_type = "EndOfFile")
           /\ eof_returned' = (r.tok.token_type = "EndOfFile")
    /\ last_call' = "next_token"
    /\ UNCHANGED <<overflow_checks, caller>>

Next == NextToken \/ PeekToken \/ RunLexer

Spec == Init /\ [][Next]_vars

-----------------------------------------------------------------------------
(* advance_n is n applications of advance: checked for every scanner the   *)
(* model reaches, over the first characters ahead.                         *)

LemmaDepth == 6

AdvanceNIsIteratedAdvance ==
    /\ advance_n(Scanner, 0) = Scanner
    /\ \A n \in 0..LemmaDepth :
          n < Len(chars) =>
              advance_n(Scanner, n + 1) = advance(advance_n(Scanner, n))

-----------------------------------------------------------------------------
(* Vocabulary of the properties, stated on the input text alone *)

Blanks == {" ", TAB, CR}

WordChars == AsciiAlphabetic \cup Digits \cup {"_"}

\* the text without its leading spaces, tabs and carriage returns
RECURSIVE DropBlanks(_)
DropBlanks(text) ==
    IF text # <<>> /\ Head(text) \in Blanks THEN DropBlanks(Tail(text))
    ELSE text

\* the longest prefix of text made of characters of set
LeadingRun(text, set) ==
    SubSeq(text, 1,
           (CHOOSE i \in 1..(Len(text) + 1) :
               /\ i = Len(text) + 1 \/ text[i] \notin set
               /\ \A j \in 1..(i - 1) : text[j] \in set) - 1)

StartsWith(text, prefix) ==
    Len(text) >= Len(prefix) /\ SubSeq(text, 1, Len(prefix)) = prefix

\* the text from its first newline on (empty if it has none)
RECURSIVE FromNewline(_)
FromNewline(text) ==
    IF text = <<>> \/ Head(text) = NL THEN text ELSE FromNewline(Tail(text))

\* the text after the block comment whose opening delimiter has been read,
\* at nesting depth d; <<"unterminated">> if the text ends first
RECURSIVE AfterBlockComment(_, _)
AfterBlockComment(text, d) ==
    IF d = 0 THEN text
    ELSE IF text = <<>> THEN <<"unterminated">>
    ELSE IF StartsWith(text, <<"/", "*">>)
         THEN AfterBlockComment(SubSeq(text, 3, Len(text)), d + 1)
    ELSE IF StartsWith(text, <<"*", "/">>)
         THEN AfterBlockComment(SubSeq(text, 3, Len(text)), d - 1)
    ELSE AfterBlockComment(Tail(text), d)

\* text consists of whitespace and terminated comments only
RECURSIVE OnlyWhitespaceAndComments(_)
OnlyWhitespaceAndComments(text) ==
    IF text = <<>> THEN TRUE
    ELSE IF Head(text) \in Blanks \cup {NL}
         THEN OnlyWhitespaceAndComments(Tail(text))
    ELSE IF StartsWith(text, <<"/", "/">>)
         THEN OnlyWhitespaceAndComments(FromNewline(text))
    ELSE IF StartsWith(text, <<"/", "*">>)
         THEN LET rest == AfterBlockComment(SubSeq(text, 3, Len(text)), 1)
              IN  rest # <<"unterminated">> /\ OnlyWhitespaceAndComments(rest)
    ELSE FALSE

\* text opens a block comment that is not closed before the end of input
OpensUnclosedBlockComment(text) ==
    /\ StartsWith(text, <<"/", "*">>)
    /\ AfterBlockComment(SubSeq(text, 3, Len(text)), 1) = <<"unterminated">>

\* the first token of the stream run_lexer has collected
FirstToken == tokens[1]

FirstCallReturned == caller = "run_lexer" /\ Len(tokens) >= 1

-----------------------------------------------------------------------------
(* C1 *)

\* C1: every call of next_token (and of peek_token, which calls it)
\* completes and returns a token, and the token column computed as
\* column - (cursor - start) is never below zero (never wraps).
C1_EveryCallReturnsAToken ==
    /\ ~panicked
    /\ last_call # "new" =>
          tok.token_type # "NoToken" /\ tok.column >= 0

-----------------------------------------------------------------------------
(* C2 *)

EndsWithExactlyOneEndOfInput(ts) ==
    /\ Len(ts) >= 1
    /\ ts[Len(ts)].token_type = "EndOfFile"
    /\ \A i \in 1..(Len(ts) - 1) : ts[i].token_type # "EndOfFile"

\* C2: the loop that repeatedly calls next_token receives an end-of-input
\* token after finitely many calls.  As a property of finite runs: the loop
\* is never cut short before it has received end-of-input, each token
\* before it has moved the cursor (so there are at most as many as input
\* bytes), and when the loop has ended the collected sequence ends with
\* exactly one end-of-input token.
C2_CallerReceivesEndOfInput ==
    caller = "run_lexer" =>
        /\ ~panicked
        /\ Len(tokens) <= ByteLen(source) + 1
        /\ ~done => \A i \in 1..Len(tokens) : tokens[i].token_type # "EndOfFile"
        /\ done => EndsWithExactlyOneEndOfInput(tokens)

-----------------------------------------------------------------------------
(* C3 *)

-----------------------------------------------------------------------------
(* C4 *)

\* C4: once next_token has returned an end-of-input token, every later
\* next_token or peek_token call returns an end-of-input token with the
\* same line and column and leaves cursor, line and column unchanged.
C4_EndOfInputIsIdempotent ==
    [][eof_returned =>
          /\ ~panicked'
          /\ tok'.token_type = "EndOfFile"
          /\ tok'.line = tok.line /\ tok'.column = tok.column
          /\ UNCHANGED <<current, line, column>>]_vars

\* a call made after end-of-input was returned, on an input whose last
\* token is followed by blanks
C4_Witness ==
    /\ eof_returned
    /\ last_call = "peek_token"
    /\ tok.token_type = "EndOfFile"
    /\ 0 < start
    /\ source[Len(source)] \in Blanks

-----------------------------------------------------------------------------
(* C5 *)

\* C5: on an input made only of whitespace (spaces, tabs, carriage
\* returns, newlines) and terminated comments, the first next_token call
\* returns the end-of-input token.
C5_BlankInputYieldsOnlyEndOfInput ==
    (OnlyWhitespaceAndComments(source) /\ FirstCallReturned) =>
        FirstToken.token_type = "EndOfFile"

-----------------------------------------------------------------------------
(* C6 *)

Position(t) == <<t.line, t.column>>

\* C6: scanning "if x\n123" returns `if` at (1, 1), `x` at (1, 4) and
\* `123` at (2, 1) in three successive next_token calls; the newline
\* produces no token.
C6_NewlineStartsNextLine ==
    (source = TestPositionTracking /\ caller = "run_lexer") =>
        /\ Len(tokens) >= 1 =>
              tokens[1].token_type = "If" /\ Position(tokens[1]) = <<1, 1>>
        /\ Len(tokens) >= 2 =>
              tokens[2].token_type = "Identifier"
                  /\ Position(tokens[2]) = <<1, 4>>
        /\ Len(tokens) >= 3 =>
              tokens[3].token_type = "IntLiteral"
                  /\ Position(tokens[3]) = <<2, 1>>

-----------------------------------------------------------------------------
(* C7 *)

ExpectedOperatorKind(sp) ==
    CASE sp = <<"+">> -> "Plus"
      [] sp = <<"-">> -> "Minus"
      [] sp = <<"*">> -> "Star"
      [] sp = <<"/">> -> "Slash"
      [] sp = <<"%">> -> "Percent"
      [] sp = <<"=">> -> "Equal"
      [] sp = <<"=", "=">> -> "EqualEqual"
      [] sp = <<"!", "=">> -> "NotEqual"
      [] sp = <<"<">> -> "Less"
      [] sp = <<"<", "=">> -> "LessEqual"
      [] sp = <<">">> -> "Greater"
      [] sp = <<">", "=">> -> "GreaterEqual"
      [] sp = <<"&", "&">> -> "AndAnd"
      [] sp = <<"|", "|">> -> "OrOr"
      [] sp = <<"!">> -> "Bang"
      [] sp = <<"+", "=">> -> "PlusEqual"
      [] sp = <<"-", "=">> -> "MinusEqual"
      [] sp = <<"*", "=">> -> "StarEqual"
      [] sp = <<"/", "=">> -> "SlashEqual"

\* C7: each of the 19 operator spellings, when it is the next lexical
\* unit (followed by a space or the end of input), is returned as one
\* token of its own operator kind whose lexeme is the whole spelling.
C7_OperatorsAreRecognized ==
    \A sp \in OperatorSpellings :
        (source \in AsNextUnit({sp}) /\ FirstCallReturned) =>
            /\ FirstToken.token_type = ExpectedOperatorKind(sp)
            /\ FirstToken.lexeme = sp

-----------------------------------------------------------------------------
(* C8 *)

IsDigitRun(text) == text # <<>> /\ \A i \in 1..Len(text) : text[i] \in Digits

RECURSIVE Pow10(_)
Pow10(n) == IF n = 0 THEN 1 ELSE 10 * Pow10(n - 1)

\* the digits of text that count: text without its leading zeros
Significant(text) ==
    LET nz == {i \in 1..Len(text) : text[i] # "0"}
    IN  IF nz = {} THEN <<"0">>
        ELSE SubSeq(text, CHOOSE i \in nz : \A j \in nz : i <= j, Len(text))

\* the digit run denotes a number of at most 2147483647
AtMostI32Max(text) ==
    LET sig == Significant(text)
    IN  \/ Len(sig) < 10
        \/ /\ Len(sig) = 10
           /\ \/ sig = I32Max
              \/ \E i \in 1..10 :
                    /\ \A j \in 1..(i - 1) : sig[j] = I32Max[j]
                    /\ DigitVal(sig[i]) < DigitVal(I32Max[i])

\* the number a digit run of at most 10 significant digits denotes
RECURSIVE PositionalSum(_, _)
PositionalSum(sig, i) ==
    IF i > Len(sig) THEN 0
    ELSE DigitVal(sig[i]) * Pow10(Len(sig) - i) + PositionalSum(sig, i + 1)

\* C8: an integer literal that denotes a number of the 32-bit range
\* yields one IntLiteral token with exactly that value; an integer literal
\* of any larger magnitude yields an error token whose message is the
\* integer-out-of-range message.
C8_IntegerLiteralValueOrOutOfRange ==
    (IsDigitRun(source) /\ FirstCallReturned) =>
        IF AtMostI32Max(source)
        THEN /\ FirstToken.token_type = "IntLiteral"
             /\ FirstToken.literal.tag = "Integer"
             /\ FirstToken.literal.val = PositionalSum(Significant(source), 1)
        ELSE /\ FirstToken.token_type = "Error"
             /\ FirstToken.lexeme[1] = "integer literal out of range: "

-----------------------------------------------------------------------------
(* C9 *)

ExpectedKeywordKind(run) ==
    CASE run = <<"i", "f">> -> "If"
      [] run = <<"e", "l", "s", "e">> -> "Else"
      [] run = <<"w", "h", "i", "l", "e">> -> "While"
      [] run = <<"f", "o", "r">> -> "For"
      [] run = <<"i", "n", "t">> -> "Int"
      [] run = <<"f", "l", "o", "a", "t">> -> "Float"
      [] run = <<"b", "o", "o", "l">> -> "Bool"
      [] run = <<"r", "e", "t", "u", "r", "n">> -> "Return"
      [] run = <<"t", "r", "u", "e">> -> "True"
      [] run = <<"f", "a", "l", "s", "e">> -> "False"
      [] run = <<"v", "o", "i", "d">> -> "Void"
      [] run = <<"s", "t", "r", "u", "c", "t">> -> "Struct"
      [] run = <<"f", "n">> -> "Fn"
      [] OTHER -> "Identifier"

\* the word ahead of the scanner: the maximal run of letters, digits and
\* underscores that follows the blanks ahead, if it starts with a letter
\* or an underscore (empty otherwise)
WordAhead ==
    LET ahead == DropBlanks(chars)
    IN  IF ahead # <<>> /\ Head(ahead) \in AsciiAlphabetic \cup {"_"}
        THEN LeadingRun(ahead, WordChars)
        ELSE <<>>

\* C9: when a maximal letter/digit/underscore run starting with a letter
\* or underscore is the next unit, next_token returns the keyword kind if
\* the run is exactly a keyword spelling, and otherwise, for a run of at
\* most 255 characters, one Identifier token with no literal; the lexeme
\* is the run.
C9_KeywordOrIdentifier ==
    [][(last_call' = "next_token" /\ WordAhead # <<>>
            /\ (ExpectedKeywordKind(WordAhead) # "Identifier"
                   \/ Len(WordAhead) <= 255)) =>
          /\ ~panicked'
          /\ tok'.token_type = ExpectedKeywordKind(WordAhead)
          /\ tok'.lexeme = WordAhead
          /\ tok'.token_type = "Identifier" => tok'.literal.tag = "None"]_vars

\* next_token has returned an identifier that starts with a keyword
C9_Witness ==
    /\ last_call = "next_token"
    /\ tok.token_type = "Identifier"
    /\ Len(tok.lexeme) = 3
    /\ SubSeq(tok.lexeme, 1, 2) \in KeywordSpellings

-----------------------------------------------------------------------------
(* C10 *)

\* C10: on an input that opens a block comment and never closes it, the
\* first next_token call returns the end-of-input token, with no error
\* token.
C10_UnclosedCommentYieldsEndOfInput ==
    (OpensUnclosedBlockComment(source) /\ FirstCallReturned) =>
        FirstToken.token_type = "EndOfFile"

-----------------------------------------------------------------------------
(* C11 *)

\* the text that follows the block comment ahead of the scanner, when the
\* text ahead (after blanks) opens a block comment that is terminated
\* under the left-to-right depth count; <<"none">> otherwise
AfterCommentAhead ==
    LET ahead == DropBlanks(chars)
    IN  IF StartsWith(ahead, <<"/", "*">>)
           /\ AfterBlockComment(SubSeq(ahead, 3, Len(ahead)), 1)
                  # <<"unterminated">>
        THEN AfterBlockComment(SubSeq(ahead, 3, Len(ahead)), 1)
        ELSE <<"none">>

NestedCommentThenX ==
    <<"/", "*", " ", "a", " ", "/", "*", " ", "b", " ", "*", "/", " ", "c", " ", "*", "/", "x">>

\* C11: block comments nest.  The comment ahead ends exactly after the
\* closing delimiter that brings the left-to-right depth count (1 after
\* the opening delimiter, +1 per further opening, -1 per closing) to 0,
\* and it yields no token: next_token returns the unit that follows the
\* comment (the word that follows it, with the cursor just after that
\* word, or end-of-input when only blanks follow).  Scanning
\* "/* a /* b */ c */x" yields the identifier x and then end-of-input.
C11_BlockCommentsNest ==
    [][/\ (last_call' = "next_token" /\ AfterCommentAhead # <<"none">>) =>
             LET unit == DropBlanks(AfterCommentAhead)
                 word == LeadingRun(unit, WordChars)
             IN  /\ ~panicked'
                 /\ unit = <<>> =>
                        tok'.token_type = "EndOfFile" /\ chars' = <<>>
                 /\ (unit # <<>> /\ Head(unit) \in AsciiAlphabetic \cup {"_"}) =>
                        /\ tok'.token_type = ExpectedKeywordKind(word)
                        /\ tok'.lexeme = word
                        /\ chars' = SubSeq(unit, Len(word) + 1, Len(unit))
       /\ (source = NestedCommentThenX /\ done') =>
             /\ Len(tokens') = 2
             /\ tokens'[1].token_type = "Identifier"
             /\ tokens'[1].lexeme = <<"x">>
             /\ tokens'[2].token_type = "EndOfFile"]_vars

\* the nested comment followed by x has been scanned to the end
C11_Witness ==
    /\ source = NestedCommentThenX
    /\ done
    /\ Len(tokens) = 2
    /\ tokens[1].lexeme = <<"x">>

-----------------------------------------------------------------------------
(* C12 *)

\* the longest prefix of text free of the characters of stops
PrefixBefore(text, stops) ==
    SubSeq(text, 1,
           (CHOOSE i \in 1..(Len(text) + 1) :
               /\ i = Len(text) + 1 \/ text[i] \in stops
               /\ \A j \in 1..(i - 1) : text[j] \notin stops) - 1)

\* the text ahead (after blanks) opens a string
StringAhead ==
    DropBlanks(chars) # <<>> /\ Head(DropBlanks(chars)) = QUOTE

\* the characters between the opening quote ahead and the first quote or
\* newline after it (or the end of input)
StringBodyAhead == PrefixBefore(Tail(DropBlanks(chars)), {QUOTE, NL})

\* what follows the body: a closing quote, a newline or nothing
AfterStringBodyAhead ==
    SubSeq(DropBlanks(chars), Len(StringBodyAhead) + 2, Len(DropBlanks(chars)))

ClosedStringAhead ==
    /\ StringAhead
    /\ AfterStringBodyAhead # <<>>
    /\ Head(AfterStringBodyAhead) = QUOTE

\* C12: a quote, any characters other than a quote and a newline, and a
\* closing quote yield exactly one StringLiteral token: its literal is
\* exactly the enclosed characters (no escape processing, comment markers
\* kept), its lexeme is the source text with both quotes, and the cursor
\* is left just after the closing quote; "" yields the empty literal.
C12_ClosedStringYieldsStringLiteral ==
    [][(last_call' = "next_token" /\ ClosedStringAhead) =>
          /\ ~panicked'
          /\ tok'.token_type = "StringLiteral"
          /\ tok'.literal.tag = "String"
          /\ tok'.literal.val = StringBodyAhead
          /\ tok'.lexeme = <<QUOTE>> \o StringBodyAhead \o <<QUOTE>>
          /\ chars' = Tail(AfterStringBodyAhead)]_vars

\* next_token has returned a string literal that holds a backslash and is
\* followed by more input
C12_Witness ==
    /\ last_call = "next_token"
    /\ tok.token_type = "StringLiteral"
    /\ tok.literal.val = <<"a", "\\">>
    /\ chars # <<>>

-----------------------------------------------------------------------------
(* C13 *)

\* C13: when the next unit starts with & (or |), a second & (or |) right
\* after it makes one AndAnd (or OrOr) token of two characters; otherwise
\* next_token returns one error token with the invalid-character message
\* naming & (or |) and no literal, and consumes that one character only.
C13_LoneAmpersandOrPipeIsInvalid ==
    [][(last_call' = "next_token" /\ DropBlanks(chars) # <<>>
            /\ Head(DropBlanks(chars)) \in {"&", "|"}) =>
          LET ahead == DropBlanks(chars)
              c == Head(ahead)
          IN  /\ ~panicked'
              /\ IF Len(ahead) >= 2 /\ ahead[2] = c
                 THEN /\ tok'.token_type = (IF c = "&" THEN "AndAnd" ELSE "OrOr")
                      /\ tok'.lexeme = <<c, c>>
                      /\ chars' = SubSeq(ahead, 3, Len(ahead))
                 ELSE /\ tok'.token_type = "Error"
                      /\ tok'.lexeme = <<"invalid character: '", c, "'">>
                      /\ tok'.literal.tag = "None"
                      /\ chars' = Tail(ahead)]_vars

\* next_token has returned the error for a lone & that is followed by |
C13_Witness ==
    /\ last_call = "next_token"
    /\ tok.token_type = "Error"
    /\ tok.lexeme = <<"invalid character: '", "&", "'">>
    /\ chars = <<"|">>

-----------------------------------------------------------------------------
(* C14 *)

\* text is a digit run, a dot and a digit run
IsDigitsDotDigits(text) ==
    \E i \in 2..(Len(text) - 1) :
        /\ text[i] = "."
        /\ \A j \in 1..Len(text) : j # i => text[j] \in Digits

TokenKinds(ts) == [i \in 1..Len(ts) |-> ts[i].token_type]

\* C14: a numeric-looking unit alone in the input yields exactly one token
\* before end-of-input: a FloatLiteral for digits, dot, digits; an Error
\* for ".5"; an Error with the malformed-number message for "10.".  The
\* input "0.0 3.14 .5 10." yields FloatLiteral, FloatLiteral, Error, Error
\* and then end-of-input.
C14_OneTokenPerNumericUnit ==
    (caller = "run_lexer" /\ done) =>
        /\ source \in NumericUnitSources =>
              /\ Len(tokens) = 2
              /\ tokens[1].token_type =
                     (IF IsDigitsDotDigits(source) THEN "FloatLiteral"
                      ELSE "Error")
              /\ source = <<"1", "0", ".">> =>
                     tokens[1].lexeme[1] = "malformed number: '"
        /\ source = TestFloatLiterals =>
              TokenKinds(tokens) = <<"FloatLiteral", "FloatLiteral", "Error",
                                     "Error", "EndOfFile">>

-----------------------------------------------------------------------------
(* C15 *)

\* the string opened ahead is not closed before the next newline or the
\* end of input
UnclosedStringAhead ==
    /\ StringAhead
    /\ AfterStringBodyAhead = <<>> \/ Head(AfterStringBodyAhead) = NL

IsUnterminatedStringError(t) ==
    /\ t.token_type = "Error"
    /\ t.lexeme = <<"unterminated string literal">>
    /\ t.literal.tag = "None"

\* C15: a quote that is not closed before the next newline or the end of
\* input yields exactly one error token whose lexeme is the message
\* "unterminated string literal" and whose literal is none; scanning
\* continues from the newline or the end of input, where the next call
\* returns end-of-input.
C15_UnclosedStringYieldsOneError ==
    [][/\ (last_call' = "next_token" /\ UnclosedStringAhead) =>
             /\ ~panicked'
             /\ IsUnterminatedStringError(tok')
             /\ chars' = AfterStringBodyAhead
       /\ (last_call = "next_token" /\ IsUnterminatedStringError(tok)
              /\ DropBlanks(chars) = <<>> /\ last_call' = "next_token") =>
             ~panicked' /\ tok'.token_type = "EndOfFile"]_vars

-----------------------------------------------------------------------------
(* C16 *)

\* C16: a maximal letter/digit/underscore run (starting with a letter or
\* an underscore) that is not a keyword yields one Identifier token when
\* it has at most 255 characters, and one error token with the
\* malformed-number message when it has 256 or more; either way the
\* cursor is left just after the whole run.
C16_LongIdentifierIsMalformedNumber ==
    [][(last_call' = "next_token" /\ WordAhead # <<>>
            /\ ExpectedKeywordKind(WordAhead) = "Identifier") =>
          /\ ~panicked'
          /\ chars' = SubSeq(DropBlanks(chars), Len(WordAhead) + 1,
                             Len(DropBlanks(chars)))
          /\ IF Len(WordAhead) <= 255
             THEN tok'.token_type = "Identifier" /\ tok'.lexeme = WordAhead
             ELSE /\ tok'.token_type = "Error"
                  /\ tok'.lexeme =
                         <<"malformed number: '">> \o WordAhead \o <<"'">>
                  /\ tok'.literal.tag = "None"]_vars

\* next_token has returned the error for a run of exactly 256 characters
C16_Witness ==
    /\ last_call = "next_token"
    /\ source = Repeat("a", 256)
    /\ tok.token_type = "Error"
    /\ tok.lexeme[1] = "malformed number: '"
    /\ chars = <<>>

-----------------------------------------------------------------------------
(* C17 *)

\* a lexeme as its characters: the fixed wording of a message, which the
\* model keeps as one piece at the head of the lexeme, is spelled out
Rendered(lexeme) ==
    IF lexeme = <<>> THEN <<>> ELSE Wording(Head(lexeme)) \o Tail(lexeme)

\* pattern occurs in text (case-sensitive)
Contains(text, pattern) ==
    \E i \in 1..(Len(text) - Len(pattern) + 1) :
        SubSeq(text, i, i + Len(pattern) - 1) = pattern

\* C17: the lexeme of an error token is the rendered message in the
\* wording the tests match on: scanning 2147483648 yields an error token
\* whose lexeme contains "Integer out of range", and scanning an
\* identifier of 300 characters yields an error token whose lexeme
\* contains "Malformed number".
C17_ErrorLexemeWording ==
    FirstCallReturned =>
        /\ source = TestIntegerOutOfRange =>
              /\ FirstToken.token_type = "Error"
              /\ Contains(Rendered(FirstToken.lexeme),
                          <<"I", "n", "t", "e", "g", "e", "r", " ", "o", "u", "t", " ", "o", "f", " ", "r", "a", "n", "g", "e">>)
        /\ source = TestLongIdentifier =>
              /\ FirstToken.token_type = "Error"
              /\ Contains(Rendered(FirstToken.lexeme),
                          <<"M", "a", "l", "f", "o", "r", "m", "e", "d", " ", "n", "u", "m", "b", "e", "r">>)

-----------------------------------------------------------------------------
(* C18 *)

\* C18: in every reachable state 0 <= start <= cursor <= length of the
\* input in bytes, and the cursor is on a character boundary of the input.
C18_CursorWithinInputOnBoundary ==
    /\ 0 <= start
    /\ start <= current
    /\ current <= ByteLen(source)
    /\ CharsBefore(source, current) # -1

\* peek_token has restored a cursor that lies inside the input, after a
\* token that followed another one and after a character of several bytes
C18_Witness ==
    /\ last_call = "peek_token"
    /\ ~panicked
    /\ 0 < start /\ start < current /\ current < ByteLen(source)
    /\ CharsBefore(source, current) < current

-----------------------------------------------------------------------------
(* C19 *)

\* the characters of the input before the cursor
Consumed == SubSeq(source, 1, CharsBefore(source, current))

\* the number of newlines in text
NewlinesIn(text) == Cardinality({i \in 1..Len(text) : text[i] = NL})

\* the number of characters of text after its last newline (all of them
\* if it has none)
CharsSinceNewline(text) ==
    Len(text) - (CHOOSE i \in 0..Len(text) :
                    /\ i = 0 \/ text[i] = NL
                    /\ \A j \in (i + 1)..Len(text) : text[j] # NL)

\* C19: in every reachable state, also after peek_token has restored its
\* snapshot, line is 1 plus the number of newlines before the cursor and
\* column is 1 plus the number of characters (not bytes) between the last
\* newline before the cursor, or the start of the input, and the cursor.
C19_LineAndColumnFollowTheCursor ==
    /\ line = 1 + NewlinesIn(Consumed)
    /\ column = 1 + CharsSinceNewline(Consumed)

\* peek_token has restored a position on a later line, after a character
\* of several bytes on that line
C19_Witness ==
    /\ last_call = "peek_token"
    /\ ~panicked
    /\ line >= 2 /\ column >= 2
    /\ chars # <<>>
    /\ ByteLen(SubSeq(Consumed, Len(Consumed) - (column - 2), Len(Consumed)))
           > column - 1

-----------------------------------------------------------------------------
(* C20 *)

\* the characters of the input before the unit that the last call scanned
\* (start is the byte offset of its first character)
BeforeUnit == SubSeq(source, 1, CharsBefore(source, start))

\* C20: every token returned by next_token, error tokens and the
\* end-of-input token included, carries a line >= 1 and a column >= 1
\* that are the 1-based line and column of the first character of the
\* unit it reports, whatever characters and newlines the unit spans.
C20_TokenPositionIsUnitStart ==
    (last_call = "next_token" /\ ~panicked) =>
        /\ tok.line >= 1
        /\ tok.column >= 1
        /\ tok.line = 1 + NewlinesIn(BeforeUnit)
        /\ tok.column = 1 + CharsSinceNewline(BeforeUnit)

-----------------------------------------------------------------------------
(* C21 *)

\* the text ahead (after blanks) opens a block comment whose depth has not
\* returned to 0 when the input ends
UnclosedCommentAhead ==
    LET ahead == DropBlanks(chars)
    IN  /\ StartsWith(ahead, <<"/", "*">>)
        /\ AfterBlockComment(SubSeq(ahead, 3, Len(ahead)), 1)
               = <<"unterminated">>

IsUnterminatedCommentError(t) ==
    /\ t.token_type = "Error"
    /\ t.lexeme = <<"unterminated block comment">>

\* C21: when next_token consumes an opening block-comment delimiter and
\* the nesting depth has not returned to 0 at the end of input, the call
\* returns exactly one error token whose lexeme is "unterminated block
\* comment" and leaves the cursor at the end of input, and the next call
\* returns end-of-input.
C21_UnclosedCommentYieldsOneError ==
    [][/\ (last_call' = "next_token" /\ UnclosedCommentAhead) =>
             /\ ~panicked'
             /\ IsUnterminatedCommentError(tok')
             /\ chars' = <<>>
             /\ current' = ByteLen(source)
       /\ (last_call = "next_token" /\ IsUnterminatedCommentError(tok)
              /\ last_call' = "next_token") =>
             ~panicked' /\ tok'.token_type = "EndOfFile"]_vars

-----------------------------------------------------------------------------
(* C22 *)

\* the text ahead (after blanks) is a minus sign right before a digit
MinusDigitsAhead ==
    LET ahead == DropBlanks(chars)
    IN  Len(ahead) >= 2 /\ ahead[1] = "-" /\ ahead[2] \in Digits

-----------------------------------------------------------------------------
(* C23 *)

\* text with each comment replaced by one space, reading left to right:
\* a string runs to its closing quote (or to the newline or end that
\* leaves it unterminated) and hides comment markers; a line comment runs
\* up to, not including, its newline; a block comment runs to the closing
\* delimiter that brings its depth to 0.  A block comment that is not
\* terminated leaves the marker "unterminated" in the result.
RECURSIVE WithoutComments(_)
WithoutComments(text) ==
    IF text = <<>> THEN <<>>
    ELSE IF Head(text) = QUOTE THEN
        LET body == PrefixBefore(Tail(text), {QUOTE, NL})
            after == SubSeq(text, Len(body) + 2, Len(text))
        IN  IF after # <<>> /\ Head(after) = QUOTE
            THEN <<QUOTE>> \o body \o <<QUOTE>> \o WithoutComments(Tail(after))
            ELSE <<QUOTE>> \o body \o WithoutComments(after)
    ELSE IF StartsWith(text, <<"/", "/">>)
         THEN <<" ">> \o WithoutComments(FromNewline(text))
    ELSE IF StartsWith(text, <<"/", "*">>) THEN
        LET rest == AfterBlockComment(SubSeq(text, 3, Len(text)), 1)
        IN  IF rest = <<"unterminated">> THEN rest
            ELSE <<" ">> \o WithoutComments(rest)
    ELSE IF Head(text) = "/"
         THEN <<"/">> \o WithoutComments(Tail(text))
    ELSE LET plain == PrefixBefore(text, {"/", QUOTE})
         IN  plain \o WithoutComments(SubSeq(text, Len(plain) + 1, Len(text)))

EveryBlockCommentTerminated(text) ==
    \A i \in 1..Len(WithoutComments(text)) :
        WithoutComments(text)[i] # "unterminated"

\* kind, lexeme and literal of each token (not its position)
Essence(ts) ==
    [i \in 1..Len(ts) |-> <<ts[i].token_type, ts[i].lexeme, ts[i].literal>>]

\* C23: comments are transparent.  For every input in which every block
\* comment is terminated, the repeated next_token calls return the same
\* sequence of token kinds, lexemes and literals on the input and on the
\* input with each comment replaced by a single space (and the run on the
\* one is cut short by a failing call exactly when the run on the other
\* is).
C23_CommentsAreTransparent ==
    (caller = "run_lexer" /\ (done \/ panicked)
         /\ EveryBlockCommentTerminated(source)) =>
        LET r == run_lexer_loop(ScannerNew(WithoutComments(source)), <<>>)
        IN  /\ r.panicked = panicked
            /\ Essence(r.tokens) = Essence(tokens)

====
